---------------------------- MODULE Spec2Model ----------------------------
(***************************************************************************)
(* A model of cmaputil.py: the colour parser (parse_color), the hex        *)
(* formatter (to_hex), the stdin loop of the "plot" command and the        *)
(* "create-diverging" command.                                             *)
(*                                                                         *)
(* Text is a sequence of one-character strings.  A Python float is an IEEE *)
(* 754 binary64 value: a sign, a 53-bit mantissa (a sequence of bits, most *)
(* significant first) and an exponent, so that `/' and `*' round as the    *)
(* interpreter's do.  The lightness ramps of create-diverging are exact     *)
(* rationals (see linspace below).                                         *)
(***************************************************************************)
EXTENDS Integers, Sequences, FiniteSets, TLC

VARIABLES
    pc,        \* position of the running script
    token,     \* parse_color / to_hex: the text handed to parse_color
    result,    \* parse_color's outcome for token
    hex,       \* to_hex's output for result
    stdin,     \* plot: the lines of standard input
    i,         \* plot: enumerate()'s index of the next line
    colors,    \* plot: the list `colors'
    stdout,    \* plot: the "Bad line" reports printed so far
    plotted,   \* plot: the colour list handed to the plotting calls
    argv,      \* create-diverging: the command line as typed
    args,      \* create-diverging: the parsed command line
    hs,        \* create-diverging: the lists h and s
    ls,        \* create-diverging: l_max, l1, l2 and l
    out        \* create-diverging: the lines printed so far

vars == <<pc, token, result, hex, stdin, i, colors, stdout, plotted, argv, args, hs, ls, out>>

-----------------------------------------------------------------------------
(* Bounds of the model. *)

\* Longest run of characters after a hex prefix in the generated tokens.
MaxBody == 7
\* Most lines on standard input.
MaxLines == 3
\* Largest n_colors.
MaxN == 6
\* n_colors ranges down to -MaxNeg.
MaxNeg == 3

-----------------------------------------------------------------------------
(* Characters. *)

Digits == {"0", "1", "2", "3", "4", "5", "6", "7", "8", "9"}

DigitVal(c) ==
    CASE c = "0" -> 0 [] c = "1" -> 1 [] c = "2" -> 2 [] c = "3" -> 3
      [] c = "4" -> 4 [] c = "5" -> 5 [] c = "6" -> 6 [] c = "7" -> 7
      [] c = "8" -> 8 [] c = "9" -> 9

LowerHex == {"a", "b", "c", "d", "e", "f"}
UpperHex == {"A", "B", "C", "D", "E", "F"}

\* The class [0-9A-Fa-f].
HexClass == Digits \cup LowerHex \cup UpperHex

\* int(c, 16) for one hex digit.
HexVal(c) ==
    CASE c \in Digits -> DigitVal(c)
      [] c \in {"a", "A"} -> 10 [] c \in {"b", "B"} -> 11
      [] c \in {"c", "C"} -> 12 [] c \in {"d", "D"} -> 13
      [] c \in {"e", "E"} -> 14 [] c \in {"f", "F"} -> 15

\* The class [0-9\.eE+-].
NumClass == Digits \cup {".", "e", "E", "+", "-"}

\* The class \s, and the characters str.strip() removes.
SpaceClass == {" ", "\t", "\n"}

\* Index of the first character of s at or after from that is not in cls
\* (Len(s) + 1 when there is none): where a greedy cls* stops.
RunEnd(s, from, cls) ==
    LET stops == {j \in from..Len(s) : s[j] \notin cls}
    IN  IF stops = {} THEN Len(s) + 1
        ELSE CHOOSE j \in stops : \A k \in stops : j <= k

\* str.strip().
Strip(s) ==
    LET a == RunEnd(s, 1, SpaceClass)
        keep == {j \in 1..Len(s) : s[j] \notin SpaceClass}
    IN  IF keep = {} THEN <<>>
        ELSE SubSeq(s, a, CHOOSE j \in keep : \A k \in keep : k <= j)

-----------------------------------------------------------------------------
(* binary64 arithmetic.                                                    *)
(*                                                                         *)
(* A value bound by \in is computed once where a LET name is computed at   *)
(* every use, so the intermediate results are bound by \in.                *)

\* The element of a one-element set.
Only(S) == CHOOSE x \in S : TRUE

MantBits == 53

FZero(sign) == [sign |-> sign, mant |-> <<>>, exp |-> 0]

IsFZero(x) == x.mant = <<>>

\* The number the bits spell.
BitsToNat(bits) ==
    LET v[k \in 0..Len(bits)] == IF k = 0 THEN 0 ELSE 2 * v[k - 1] + bits[k]
    IN  v[Len(bits)]

\* bits + 1, one bit longer when every bit was 1.
BitsInc(bits) ==
    IF \A j \in 1..Len(bits) : bits[j] = 1
    THEN <<1>> \o [j \in 1..Len(bits) |-> 0]
    ELSE Only({SubSeq(bits, 1, z - 1) \o <<1>> \o [j \in 1..(Len(bits) - z) |-> 0] :
               z \in {j \in 1..Len(bits) :
                        bits[j] = 0 /\ \A k \in (j + 1)..Len(bits) : bits[k] = 1}})

\* The binary64 nearest to bits * 2^exp (ties to even), bits having no leading
\* zero.
FRound(sign, bits, exp) ==
    LET n == Len(bits)
    IN  IF n = 0 THEN FZero(sign)
        ELSE IF n <= MantBits
        THEN [sign |-> sign,
              mant |-> bits \o [j \in 1..(MantBits - n) |-> 0],
              exp |-> exp - (MantBits - n)]
        ELSE LET half == bits[MantBits + 1] = 1
                 sticky == \E j \in (MantBits + 2)..n : bits[j] = 1
                 up == half /\ (sticky \/ bits[MantBits] = 1)
             IN  Only({IF Len(m) > MantBits
                       THEN [sign |-> sign, mant |-> SubSeq(m, 1, MantBits),
                             exp |-> exp + (n - MantBits) + 1]
                       ELSE [sign |-> sign, mant |-> m, exp |-> exp + (n - MantBits)] :
                       m \in {IF up THEN BitsInc(SubSeq(bits, 1, MantBits))
                              ELSE SubSeq(bits, 1, MantBits)}})

\* Largest power of two the model's integers multiply by.
MaxShift == 29

\* The leading 1, MantBits more bits, and a sticky bit for the remainder, of
\* the quotient a1 / b1 where b1 <= a1 < 2 * b1: long division.
QuotBits(a1, b1) ==
    LET rem[j \in 0..MantBits] == IF j = 0 THEN a1 - b1 ELSE (2 * rem[j - 1]) % b1
    IN  <<1>> \o [j \in 1..MantBits |-> (2 * rem[j - 1]) \div b1]
             \o (IF rem[MantBits] = 0 THEN <<>> ELSE <<1>>)

\* The binary64 nearest (a1 / b1) * 2^e, where b1 <= a1 < 2 * b1.
FDivScaled(sign, a1, b1, e) ==
    Only({FRound(sign, bits, e - Len(bits) + 1) : bits \in {QuotBits(a1, b1)}})

\* The power of two that brings a up to b, and the one that brings b up to a.
UpShift(a, b) ==
    IF a >= b THEN 0
    ELSE CHOOSE j \in 1..MaxShift : a * 2^j >= b /\ a * 2^(j - 1) < b

DownShift(a, b) ==
    IF a < b THEN 0
    ELSE CHOOSE j \in 0..MaxShift : a \div 2^j >= b /\ a \div 2^(j + 1) < b

\* The binary64 quotient a / b of two integers, a >= 0 and b > 0, correctly
\* rounded: a and b are scaled by powers of two until b1 <= a1 < 2 * b1.
FDivNat(sign, a, b) ==
    IF a = 0 THEN FZero(sign)
    ELSE Only({FDivScaled(sign, p[1], p[2], p[3]) :
               p \in {<<a * 2^UpShift(a, b), b * 2^DownShift(a, b),
                        DownShift(a, b) - UpShift(a, b)>>}})

\* bits * k for an integer k > 0 of w bits: the product bit by bit from the
\* least significant, carry[j] being the carry out of the j-th; leading zeros
\* dropped.
MulBits(bits, k) ==
    LET n == Len(bits)
        w == CHOOSE j \in 1..MaxShift : k < 2^j /\ (j = 1 \/ k >= 2^(j - 1))
        bitAt(j) == IF j <= n THEN bits[n - j + 1] ELSE 0
        carry[j \in 0..(n + w)] == IF j = 0 THEN 0 ELSE (bitAt(j) * k + carry[j - 1]) \div 2
    IN  Only({SubSeq(prod, RunEnd(prod, 1, {0}), Len(prod)) :
              prod \in {<<>> \o [j \in 1..(n + w) |->
                                   (bitAt(n + w - j + 1) * k + carry[n + w - j]) % 2]}})

\* The binary64 product x * k for an integer k > 0.
FMulNat(x, k) ==
    IF IsFZero(x) THEN x
    ELSE Only({FRound(x.sign, bits, x.exp) : bits \in {MulBits(x.mant, k)}})

\* int(x): truncation toward zero (the values here stay below 2^30).
FTrunc(x) ==
    IF IsFZero(x) THEN 0
    ELSE LET keep == MantBits + x.exp
             mag == IF keep <= 0 THEN 0
                    ELSE IF keep <= MantBits
                    THEN BitsToNat(SubSeq(x.mant, 1, keep))
                    ELSE BitsToNat(x.mant \o [j \in 1..x.exp |-> 0])
         IN  IF x.sign = 1 THEN 0 - mag ELSE mag

\* Whether mantissa a is below mantissa b (both MantBits long).
BitsLess(a, b) ==
    \E j \in 1..Len(a) : a[j] < b[j] /\ \A k \in 1..(j - 1) : a[k] = b[k]

\* x <= y on binary64 values.
FLe(x, y) ==
    LET magLe(u, v) ==
            \/ IsFZero(u)
            \/ /\ ~IsFZero(v)
               /\ \/ u.exp < v.exp
                  \/ u.exp = v.exp /\ (u.mant = v.mant \/ BitsLess(u.mant, v.mant))
    IN  CASE IsFZero(x) /\ IsFZero(y) -> TRUE
          [] x.sign = 0 /\ y.sign = 0 -> magLe(x, y)
          [] x.sign = 1 /\ y.sign = 1 -> magLe(y, x)
          [] x.sign = 1 /\ y.sign = 0 -> TRUE
          [] OTHER -> FALSE

FInt(n) == FDivNat(0, n, 1)

-----------------------------------------------------------------------------
(* float(text) for a text drawn from the class [0-9\.eE+-]. *)

Pow10(n) == 10^n

\* The number the decimal digits s[from..to] spell (0 for none).
DigitsVal(s, from, to) ==
    LET v[k \in (from - 1)..to] == IF k < from THEN 0 ELSE 10 * v[k - 1] + DigitVal(s[k])
    IN  IF from > to THEN 0 ELSE v[to]

\* The pieces of a decimal literal [sign] digits [. digits] [(e|E) [sign]
\* digits]: ok is whether all of s is one; then the value is
\* (-1)^neg * digits * 10^pow.
DecimalOf(s) ==
    LET n == Len(s)
        hasSign == n >= 1 /\ s[1] \in {"+", "-"}
        i0 == IF hasSign THEN 2 ELSE 1
        i1 == RunEnd(s, i0, Digits)
        hasDot == i1 <= n /\ s[i1] = "."
        f0 == IF hasDot THEN i1 + 1 ELSE i1
        f1 == IF hasDot THEN RunEnd(s, f0, Digits) ELSE i1
        hasExp == f1 <= n /\ s[f1] \in {"e", "E"}
        expSign == hasExp /\ f1 + 1 <= n /\ s[f1 + 1] \in {"+", "-"}
        x0 == IF expSign THEN f1 + 2 ELSE f1 + 1
        x1 == IF hasExp THEN RunEnd(s, x0, Digits) ELSE f1
        ok == /\ (i1 - i0) + (f1 - f0) >= 1
              /\ hasExp => x1 > x0
              /\ x1 = n + 1
        e == IF hasExp THEN DigitsVal(s, x0, x1 - 1) ELSE 0
    IN  [ok |-> ok,
         neg |-> hasSign /\ s[1] = "-",
         digits |-> DigitsVal(s, i0, i1 - 1) * Pow10(f1 - f0) + DigitsVal(s, f0, f1 - 1),
         pow |-> (IF expSign /\ s[f1 + 1] = "-" THEN 0 - e ELSE e) - (f1 - f0)]

\* float(s): the binary64 nearest the decimal, or no value (ValueError).
FloatOfStr(s) ==
    Only({IF ~d.ok THEN [ok |-> FALSE, val |-> FZero(0)]
          ELSE [ok |-> TRUE,
                val |-> IF d.pow >= 0
                        THEN FDivNat(IF d.neg THEN 1 ELSE 0, d.digits * Pow10(d.pow), 1)
                        ELSE FDivNat(IF d.neg THEN 1 ELSE 0, d.digits, Pow10(0 - d.pow))] :
          d \in {DecimalOf(s)}})

-----------------------------------------------------------------------------
(* parse_color and to_hex. *)

NoMatch == [ok |-> FALSE, groups |-> <<>>, end |-> 0]

\* re.match(r"\(([0-9\.eE+-]+),\s*([0-9\.eE+-]+),\s*([0-9\.eE+-]+)\)", s): the
\* three groups and the index after the match.  No class holds "," or ")" or a
\* space, so each greedy run ends in one place only.
MatchTriple(s) ==
    LET n == Len(s)
        e1 == RunEnd(s, 2, NumClass)
        a2 == RunEnd(s, e1 + 1, SpaceClass)
        e2 == RunEnd(s, a2, NumClass)
        a3 == RunEnd(s, e2 + 1, SpaceClass)
        e3 == RunEnd(s, a3, NumClass)
    IN  IF /\ n >= 1 /\ s[1] = "("
           /\ e1 > 2 /\ e1 <= n /\ s[e1] = ","
           /\ e2 > a2 /\ e2 <= n /\ s[e2] = ","
           /\ e3 > a3 /\ e3 <= n /\ s[e3] = ")"
        THEN [ok |-> TRUE,
              groups |-> <<SubSeq(s, 2, e1 - 1), SubSeq(s, a2, e2 - 1), SubSeq(s, a3, e3 - 1)>>,
              end |-> e3 + 1]
        ELSE NoMatch

\* k hex digits of s starting at index from.
HexRunAt(s, from, k) ==
    IF from + k - 1 <= Len(s) /\ \A j \in from..(from + k - 1) : s[j] \in HexClass
    THEN [ok |-> TRUE, groups |-> <<SubSeq(s, from, from + k - 1)>>, end |-> from + k]
    ELSE NoMatch

\* re.match(r"(?:#|0x)?([0-9A-Fa-f]{k})", s): with the prefix when it is there,
\* and without it when that fails.
MatchHex(s, k) ==
    LET pre == IF Len(s) >= 1 /\ s[1] = "#" THEN 1
               ELSE IF Len(s) >= 2 /\ s[1] = "0" /\ s[2] = "x" THEN 2
               ELSE 0
        with == HexRunAt(s, pre + 1, k)
    IN  IF pre > 0 /\ with.ok THEN with ELSE HexRunAt(s, 1, k)

Color(r, g, b) == [kind |-> "color", rgb |-> <<r, g, b>>, msg |-> ""]

ValueError(msg) == [kind |-> "ValueError", rgb |-> <<>>, msg |-> msg]

\* InRange with only the first component checked.
InRangeFirstOnly(r, g, b) ==
    \A zero \in {FDivNat(0, 0, 1)} : \A one \in {FDivNat(0, 1, 1)} : FLe(zero, r) /\ FLe(r, one)

\* 0 <= r <= 1 and 0 <= g <= 1 and 0 <= b <= 1
InRange(r, g, b) ==
    \A c \in {r, g, b} : \A zero \in {FInt(0)} : \A one \in {FInt(1)} :
        FLe(zero, c) /\ FLe(c, one)

\* The (r, g, b) form, from float()'s three results.
TripleColor(r, g, b) ==
    IF ~(r.ok /\ g.ok /\ b.ok)
    THEN ValueError("could not convert string to float")
    ELSE IF ~InRange(r.val, g.val, b.val)
    THEN ValueError("Color components out of range")
    ELSE Color(r.val, g.val, b.val)

\* Hex6Channel dividing by 256.
Hex6ChannelOver256(pair) == FDivNat(0, 16 * HexVal(pair[1]) + HexVal(pair[2]), 256)

\* int(m[1][:2], 16) / 255 and its like: a channel of the 6-digit form.
Hex6Channel(pair) == FDivNat(0, 16 * HexVal(pair[1]) + HexVal(pair[2]), 255)

\* Hex3Channel dividing by 16.
Hex3ChannelOver16(digit) == FDivNat(0, HexVal(digit), 16)

\* int(m[1][:1], 16) / 15 and its like: a channel of the 3-digit form.
Hex3Channel(digit) == FDivNat(0, HexVal(digit), 15)

parse_color(s) ==
    IF MatchTriple(s).ok
    THEN Only({Only({TripleColor(r, g, b) :
                     r \in {FloatOfStr(m[1])}, g \in {FloatOfStr(m[2])},
                     b \in {FloatOfStr(m[3])}}) :
               m \in {MatchTriple(s).groups}})
    ELSE IF MatchHex(s, 6).ok
    THEN Only({Color(Hex6Channel(SubSeq(d, 1, 2)), Hex6Channel(SubSeq(d, 3, 4)),
                     Hex6Channel(SubSeq(d, 5, 6))) :
               d \in {MatchHex(s, 6).groups[1]}})
    ELSE IF MatchHex(s, 3).ok
    THEN Only({Color(Hex3Channel(d[1]), Hex3Channel(d[2]), Hex3Channel(d[3])) :
               d \in {MatchHex(s, 3).groups[1]}})
    ELSE ValueError("Invalid color")

HexDigit(v) ==
    CASE v = 0 -> "0" [] v = 1 -> "1" [] v = 2 -> "2" [] v = 3 -> "3"
      [] v = 4 -> "4" [] v = 5 -> "5" [] v = 6 -> "6" [] v = 7 -> "7"
      [] v = 8 -> "8" [] v = 9 -> "9" [] v = 10 -> "a" [] v = 11 -> "b"
      [] v = 12 -> "c" [] v = 13 -> "d" [] v = 14 -> "e" [] v = 15 -> "f"

\* The hex digits of n >= 0, without leading zeros.
HexDigits(n) ==
    LET w == CHOOSE j \in 1..7 : n < 16^j /\ (j = 1 \/ n >= 16^(j - 1))
    IN  [j \in 1..w |-> HexDigit((n \div 16^(w - j)) % 16)]

\* f"{n:02x}": lower-case hex, zero-padded to two characters, sign included.
Format02x(n) ==
    IF n < 0 THEN <<"-">> \o HexDigits(0 - n)
    ELSE IF n < 16 THEN <<"0">> \o HexDigits(n)
    ELSE HexDigits(n)

\* int(c*255)
Scale255(c) == Only({FTrunc(p) : p \in {FMulNat(c, 255)}})

to_hex(rgb) ==
    Format02x(Scale255(rgb[1])) \o Format02x(Scale255(rgb[2])) \o Format02x(Scale255(rgb[3]))

-----------------------------------------------------------------------------
(* The texts handed to parse_color. *)

\* Number texts of the (r, g, b) form: in range, out of range, and not numbers.
NumTexts ==
    {<<"0">>, <<"1">>, <<".", "5">>, <<"1", ".", "5">>, <<"-", "1">>,
     <<"1", "e", "1">>, <<"5", "e", "-", "1">>, <<"1", ".", ".">>}

\* "(" n1 "," n2 "," n3 ")" with optional spaces after the commas, the closing
\* parenthesis present or not, and trailing text or none.
TripleTokens ==
    {<<"(">> \o n1 \o <<",">> \o w \o n2 \o <<",">> \o w \o n3 \o close \o tail :
        n1 \in NumTexts, n2 \in NumTexts, n3 \in NumTexts,
        w \in {<<>>, <<" ">>}, close \in {<<")">>, <<>>}, tail \in {<<>>, <<"z">>}}

HexPrefixes == {<<>>, <<"#">>, <<"0", "x">>}

\* A lower-case and an upper-case hex digit, and a letter that is none.
BodyAlphabet == {"c", "E", "z"}

\* Every text of at most MaxBody characters of BodyAlphabet, behind every prefix.
BodyTokens ==
    {p \o body : p \in HexPrefixes, body \in UNION {[1..n -> BodyAlphabet] : n \in 0..MaxBody}}

\* 6-digit texts in which one channel runs over every pair of hex digits.
ByteTokens ==
    UNION {{<<a, b, "0", "0", "f", "f">>, <<"8", "0", a, b, "7", "F">>, <<"f", "e", "0", "1", a, b>>} :
        a \in HexClass, b \in HexClass}

\* 3-digit texts over every hex digit, behind the accepted prefixes.
ShortTokens ==
    {p \o <<a, b, a>> : p \in HexPrefixes, a \in HexClass, b \in HexClass}

Tokens == TripleTokens \cup BodyTokens \cup ByteTokens \cup ShortTokens \cup {<<"x", "y", "z">>}

-----------------------------------------------------------------------------
(* parse_color applied to a text, and to_hex applied to the colour it gave. *)

None == [kind |-> "none", rgb |-> <<>>, msg |-> ""]

NoArgs == <<>>

InitParse ==
    /\ token \in Tokens
    /\ pc = "call"
    /\ result = None
    /\ hex = <<>>
    /\ stdin = <<>> /\ i = 0 /\ colors = <<>> /\ stdout = <<>> /\ plotted = <<>>
    /\ argv = NoArgs /\ args = NoArgs /\ hs = <<>> /\ ls = <<>> /\ out = <<>>

CallParseColor ==
    /\ pc = "call"
    /\ result' = parse_color(token)
    /\ pc' = "parsed"
    /\ UNCHANGED <<token, hex, stdin, i, colors, stdout, plotted, argv, args, hs, ls, out>>

CallToHex ==
    /\ pc = "parsed"
    /\ result.kind = "color"
    /\ hex' = to_hex(result.rgb)
    /\ pc' = "hexed"
    /\ UNCHANGED <<token, result, stdin, i, colors, stdout, plotted, argv, args, hs, ls, out>>

NextParse == CallParseColor \/ CallToHex

SpecParse == InitParse /\ [][NextParse]_vars

-----------------------------------------------------------------------------
(* The plot command: the loop over standard input, then the plotting calls. *)

\* Lines as `for ln in sys.stdin' yields them: a hex colour, a triple, a colour
\* between spaces on a last line without its newline, a text that is no colour,
\* a triple out of range, and a line of white space.
PlotLines ==
    {<<"f", "f", "0", "0", "0", "0", "\n">>,
     <<"(", "0", ",", " ", ".", "5", ",", "1", ")", "\n">>,
     <<" ", "#", "1", "c", "E", " ">>,
     <<"x", "y", "z", "\n">>,
     <<"(", "1", ".", "5", ",", "0", ",", "0", ")", "\n">>,
     <<" ", "\n">>}

InitPlot ==
    /\ stdin \in UNION {[1..n -> PlotLines] : n \in 0..MaxLines}
    /\ pc = "reading"
    /\ i = 0
    /\ colors = <<>>
    /\ stdout = <<>>
    /\ plotted = <<>>
    /\ token = <<>> /\ result = None /\ hex = <<>>
    /\ argv = NoArgs /\ args = NoArgs /\ hs = <<>> /\ ls = <<>> /\ out = <<>>

\* print(f"Bad line {i+1}: {ex}") for enumerate()'s index idx.
BadLine(idx, ex) == [line |-> idx + 1, ex |-> ex]

\* ReadLine without the try/except: a line that is no colour ends the script.
ReadLineUncaught ==
    /\ pc = "reading"
    /\ i < Len(stdin)
    /\ \E ln \in {Strip(stdin[i + 1])} :
           IF ln = <<>>
           THEN UNCHANGED <<colors, stdout, pc>>
           ELSE \E c \in {parse_color(ln)} :
                   IF c.kind = "color"
                   THEN colors' = Append(colors, c.rgb) /\ UNCHANGED <<stdout, pc>>
                   ELSE pc' = c.kind /\ UNCHANGED <<colors, stdout>>
    /\ i' = i + 1
    /\ UNCHANGED <<stdin, plotted, token, result, hex, argv, args, hs, ls, out>>

\* One turn of `for i, ln in enumerate(sys.stdin)'.
ReadLine ==
    /\ pc = "reading"
    /\ i < Len(stdin)
    /\ \E ln \in {Strip(stdin[i + 1])} :
           IF ln = <<>>
           THEN UNCHANGED <<colors, stdout>>
           ELSE \E c \in {parse_color(ln)} :
                   IF c.kind = "color"
                   THEN colors' = Append(colors, c.rgb) /\ UNCHANGED stdout
                   ELSE stdout' = Append(stdout, BadLine(i, c.msg)) /\ UNCHANGED colors
    /\ i' = i + 1
    /\ UNCHANGED <<pc, stdin, plotted, token, result, hex, argv, args, hs, ls, out>>

\* Standard input is exhausted: the loop ends.
EndOfInput ==
    /\ pc = "reading"
    /\ i = Len(stdin)
    /\ pc' = "plot"
    /\ UNCHANGED <<stdin, i, colors, stdout, plotted, token, result, hex, argv, args, hs, ls, out>>

\* The plotting calls, which are handed the list `colors'.
Plot ==
    /\ pc = "plot"
    /\ plotted' = colors
    /\ pc' = "done"
    /\ UNCHANGED <<stdin, i, colors, stdout, token, result, hex, argv, args, hs, ls, out>>

NextPlot == ReadLine \/ EndOfInput \/ Plot

SpecPlot == InitPlot /\ [][NextPlot]_vars

-----------------------------------------------------------------------------
(* The create-diverging command.                                           *)
(*                                                                         *)
(* Its float arguments are exact rationals <<numerator, denominator>> in   *)
(* lowest terms.  Of a ramp the script relies on the ends only, and those  *)
(* numpy gives exactly (start + 0 * step, and the last sample is set to    *)
(* stop); the samples between are start + k * step.                        *)

GCD(a, b) ==
    IF a = 0 THEN b
    ELSE CHOOSE g \in 1..b : a % g = 0 /\ b % g = 0
                             /\ \A k \in (g + 1)..b : ~(a % k = 0 /\ b % k = 0)

Abs(n) == IF n < 0 THEN 0 - n ELSE n

\* n / d in lowest terms, d > 0.
Rat(n, d) == Only({<<n \div g, d \div g>> : g \in {GCD(Abs(n), d)}})

RatAdd(x, y) == Rat(x[1] * y[2] + y[1] * x[2], x[2] * y[2])

RatSub(x, y) == Rat(x[1] * y[2] - y[1] * x[2], x[2] * y[2])

\* x * k / div for integers k and div > 0.
RatScale(x, k, div) == Rat(x[1] * k, x[2] * div)

\* x >= 0
RatNonNeg(x) == x[1] >= 0

\* The values typed for the float arguments, in tenths.
Tenths(S) == {Rat(n, 10) : n \in S}

HueArgs == Tenths({0, 6})
SatArgs == Tenths({5, 10})
LMinArgs == Tenths({-3, 2, 8})
LMidArgs == Tenths({5, 8, 12})
LMaxArgs == Tenths({-10, -3, 0, 2, 10})

\* default=-1 of the optional l_max argument.
DefaultLMax == -1

\* parser.parse_args() for create-diverging: l_max, typed or not, is a list of
\* one value or of none.
parse_args(cl) ==
    [n_colors |-> cl.n_colors, h_min |-> cl.h_min, h_max |-> cl.h_max,
     s_min |-> cl.s_min, s_max |-> cl.s_max, l_min |-> cl.l_min, l_mid |-> cl.l_mid,
     l_max |-> IF cl.l_max = <<>> THEN Rat(DefaultLMax, 1) ELSE cl.l_max[1]]

InitDiverging ==
    /\ argv \in [n_colors : (0 - MaxNeg)..MaxN, h_min : HueArgs, h_max : HueArgs,
                 s_min : SatArgs, s_max : SatArgs, l_min : LMinArgs, l_mid : LMidArgs,
                 l_max : {<<>>} \cup {<<v>> : v \in LMaxArgs}]
    /\ args = parse_args(argv)
    /\ pc = "lists"
    /\ hs = <<>>
    /\ ls = <<>>
    /\ out = <<>>
    /\ token = <<>> /\ result = None /\ hex = <<>>
    /\ stdin = <<>> /\ i = 0 /\ colors = <<>> /\ stdout = <<>> /\ plotted = <<>>

\* [x] * k: no element when k <= 0.
Repeat(x, k) == [j \in 1..k |-> x]

\* int(odd)
IntOf(odd) == IF odd THEN 1 ELSE 0

\* The list built from a first run, a middle element when odd, and a last run.
Halves(lo, hi, half, odd) ==
    Repeat(lo, half) \o Repeat(Rat(0, 1), IntOf(odd)) \o Repeat(hi, half)

\* odd, half, h and s.
DivergingLists ==
    /\ pc = "lists"
    /\ LET odd == (args.n_colors % 2) = 1
           half == args.n_colors \div 2
       IN  hs' = [odd |-> odd, half |-> half,
                  h |-> Halves(args.h_min, args.h_max, half, odd),
                  s |-> Halves(args.s_min, args.s_max, half, odd)]
    /\ pc' = "lightness"
    /\ UNCHANGED <<argv, args, ls, out, token, result, hex, stdin, i, colors, stdout, plotted>>

\* EffectiveLMax with > 0 for >= 0.
EffectiveLMaxPositive(a) == IF a.l_max[1] > 0 THEN a.l_max ELSE a.l_min

\* l_max = args.l_max if args.l_max >= 0 else args.l_min
EffectiveLMax(a) == IF RatNonNeg(a.l_max) THEN a.l_max ELSE a.l_min

\* np.linspace(start, stop, num, endpoint=True): ValueError for num < 0, no
\* sample for num = 0, start alone for num = 1.
linspace(start, stop, num) ==
    IF num < 0 THEN [ok |-> FALSE, y |-> <<>>]
    ELSE [ok |-> TRUE,
          y |-> <<>> \o [j \in 1..num |->
                    IF num > 1 /\ j = num THEN stop
                    ELSE IF num = 1 THEN start
                    ELSE RatAdd(start, RatScale(RatSub(stop, start), j - 1, num - 1))]]

\* LightnessList without the slice that drops the second ramp's first sample.
LightnessListNoSlice(l1, l2, odd) == l1 \o l2

\* l = list(l1) + list(l2)[int(odd):]
LightnessList(l1, l2, odd) == l1 \o SubSeq(l2, IntOf(odd) + 1, Len(l2))

\* l_max, l1, l2 and l; linspace raises for a negative number of samples.
DivergingLightness ==
    /\ pc = "lightness"
    /\ \E lmax \in {EffectiveLMax(args)} :
       \E l1 \in {linspace(args.l_min, args.l_mid, hs.half + IntOf(hs.odd))} :
       \E l2 \in {linspace(args.l_mid, lmax, hs.half + IntOf(hs.odd))} :
          IF l1.ok /\ l2.ok
          THEN /\ ls' = [l_max |-> lmax, l1 |-> l1.y, l2 |-> l2.y,
                         l |-> LightnessList(l1.y, l2.y, hs.odd)]
               /\ pc' = "assert"
          ELSE /\ ls' = [l_max |-> lmax, l1 |-> <<>>, l2 |-> <<>>, l |-> <<>>]
               /\ pc' = "ValueError"
    /\ UNCHANGED <<argv, args, hs, out, token, result, hex, stdin, i, colors, stdout, plotted>>

\* assert len(h) == len(s); assert len(h) == len(l)
DivergingAssert ==
    /\ pc = "assert"
    /\ pc' = IF Len(hs.h) = Len(hs.s) /\ Len(hs.h) = Len(ls.l) THEN "print" ELSE "AssertionError"
    /\ UNCHANGED <<argv, args, hs, ls, out, token, result, hex, stdin, i, colors, stdout, plotted>>

\* zip(h, l, s) stops with the shortest list.
ZipLen == 
    Only({n \in {Len(hs.h), Len(ls.l), Len(hs.s)} :
            n <= Len(hs.h) /\ n <= Len(ls.l) /\ n <= Len(hs.s)})

\* The line print(to_hex(hls_to_rgb(a, b, c))) writes, kept as the triple it is
\* computed from (hls_to_rgb is the standard library's).
HexLine(a, b, c) == [h |-> a, l |-> b, s |-> c]

\* One turn of `for a, b, c in zip(h, l, s)'.
DivergingPrint ==
    /\ pc = "print"
    /\ Len(out) < ZipLen
    /\ out' = Append(out, HexLine(hs.h[Len(out) + 1], ls.l[Len(out) + 1], hs.s[Len(out) + 1]))
    /\ UNCHANGED <<pc, argv, args, hs, ls, token, result, hex, stdin, i, colors, stdout, plotted>>

\* The lists are exhausted: the script ends.
DivergingEnd ==
    /\ pc = "print"
    /\ Len(out) = ZipLen
    /\ pc' = "done"
    /\ UNCHANGED <<argv, args, hs, ls, out, token, result, hex, stdin, i, colors, stdout, plotted>>

NextDiverging ==
    DivergingLists \/ DivergingLightness \/ DivergingAssert \/ DivergingPrint \/ DivergingEnd

SpecDiverging == InitDiverging /\ [][NextDiverging]_vars

-----------------------------------------------------------------------------
(* Properties of parse_color and to_hex, under SpecParse. *)

\* The whole of t is one of the three accepted forms.
IsExactForm(t) ==
    \/ MatchTriple(t).ok /\ MatchTriple(t).end = Len(t) + 1
    \/ MatchHex(t, 6).ok /\ MatchHex(t, 6).end = Len(t) + 1
    \/ MatchHex(t, 3).ok /\ MatchHex(t, 3).end = Len(t) + 1

\* C3: parse_color returns a colour only for a text that is one of the three
\* accepted forms; every other text, such as "xyz" or an accepted form followed
\* by more characters, fails with the invalid-colour error.
C3_OnlyExactFormsParse ==
    pc # "call" =>
        /\ result.kind = "color" => IsExactForm(token)
        /\ ~IsExactForm(token) => result = ValueError("Invalid color")

\* The decimal d lies outside [0, 1], by its digits.
DecimalOutside(d) ==
    IF d.neg THEN d.digits > 0
    ELSE IF d.pow >= 0 THEN d.digits * Pow10(d.pow) > 1
    ELSE d.digits > Pow10(0 - d.pow)

\* t starts with the (r, g, b) form, its three groups are numbers, and the
\* k-th lies outside [0, 1].
TripleOutsideAt(t, k) ==
    /\ MatchTriple(t).ok
    /\ \A j \in 1..3 : DecimalOf(MatchTriple(t).groups[j]).ok
    /\ DecimalOutside(DecimalOf(MatchTriple(t).groups[k]))

\* C4: a text in (r, g, b) form with a number below 0 or above 1 fails with the
\* out-of-range error: no colour is returned and the hex forms are not tried.
C4_OutOfRangeRejected ==
    (pc # "call" /\ \E k \in 1..3 : TripleOutsideAt(token, k))
        => result = ValueError("Color components out of range")

\* A triple whose first two numbers are in range and whose third is not has
\* been rejected.
C4_Witness ==
    /\ pc = "parsed"
    /\ TripleOutsideAt(token, 3)
    /\ ~TripleOutsideAt(token, 1) /\ ~TripleOutsideAt(token, 2)
    /\ result = ValueError("Color components out of range")

IsSixHex(t) == Len(t) = 6 /\ \A j \in 1..6 : t[j] \in HexClass

\* str.lower() on one character.
LowerChar(c) ==
    CASE c = "A" -> "a" [] c = "B" -> "b" [] c = "C" -> "c"
      [] c = "D" -> "d" [] c = "E" -> "e" [] c = "F" -> "f"
      [] OTHER -> c

Lower(t) == [j \in 1..Len(t) |-> LowerChar(t[j])]

\* C5 as stated: for every 6-digit hex text rrggbb,
\* to_hex(parse_color(rrggbb)) is rrggbb.
C5_RoundTripExact ==
    (pc = "hexed" /\ IsSixHex(token)) => hex = token

\* C5 as amended: for every 6-digit hex text rrggbb,
\* to_hex(parse_color(rrggbb)) is rrggbb in lower case, each channel being
\* int(c * 255), truncated.
C5_RoundTripLower ==
    (pc = "hexed" /\ IsSixHex(token)) => hex = Lower(token)

\* A 6-digit text with an upper-case digit has come back in lower case.
C5_Witness ==
    /\ pc = "hexed"
    /\ IsSixHex(token)
    /\ \E j \in 1..6 : token[j] \in UpperHex
    /\ hex = Lower(token)
    /\ hex # token

\* parse_color(t) takes the 3-digit branch.
ReachesShortHex(t) == ~MatchTriple(t).ok /\ ~MatchHex(t, 6).ok /\ MatchHex(t, 3).ok

\* xyz -> xxyyzz
Doubled(d) == <<d[1], d[1], d[2], d[2], d[3], d[3]>>

\* C10: a text that reaches the 3-digit form with digits xyz parses to the
\* colour that the 6-digit text xxyyzz parses to: d / 15 and 17 * d / 255 are
\* the same float.
C10_ShortHexAsDoubled ==
    (pc # "call" /\ ReachesShortHex(token))
        => result = parse_color(Doubled(MatchHex(token, 3).groups[1]))

\* "#7a7" has been parsed by the 3-digit form.
C10_Witness ==
    /\ pc = "parsed"
    /\ token = <<"#", "7", "a", "7">>
    /\ ReachesShortHex(token)
    /\ result.kind = "color"

-----------------------------------------------------------------------------
(* Properties of the plot command, under SpecPlot. *)

\* What each line of standard input is once stripped: "blank", or
\* parse_color's outcome.
LineOutcomes ==
    <<>> \o [j \in 1..Len(stdin) |->
                IF Strip(stdin[j]) = <<>> THEN [kind |-> "blank", rgb |-> <<>>, msg |-> ""]
                ELSE parse_color(Strip(stdin[j]))]

\* The numbers (from 1) of the lines that are colours, and of those that are
\* neither blank nor colours.
ValidLines(o) == {j \in 1..Len(o) : o[j].kind = "color"}

BadLines(o) == {j \in 1..Len(o) : o[j].kind \notin {"color", "blank"}}

\* The members of S in increasing order.
Sorted(S) == [k \in 1..Cardinality(S) |-> CHOOSE x \in S : Cardinality({y \in S : y <= x}) = k]

\* C2: a line that fails to parse never stops the loop; once the last line is
\* read, `colors' holds the colours of all valid non-blank lines in input order
\* and every malformed non-blank line has been reported once, with its 1-based
\* line number.
C2_BadLinesSkipped ==
    /\ pc \in {"reading", "plot", "done"}
    /\ pc \in {"plot", "done"} =>
        \A o \in {LineOutcomes} :
        \A valid \in {<<>> \o Sorted(ValidLines(o))} :
        \A bad \in {<<>> \o Sorted(BadLines(o))} :
            /\ i = Len(stdin)
            /\ colors = <<>> \o [k \in 1..Len(valid) |-> o[valid[k]].rgb]
            /\ stdout = <<>> \o [k \in 1..Len(bad) |-> [line |-> bad[k], ex |-> o[bad[k]].msg]]

\* A malformed line between two valid ones: both colours reached the plot and
\* the line was reported.
C2_Witness ==
    /\ pc = "done"
    /\ \E o \in {LineOutcomes} :
       \E j \in BadLines(o) : (j - 1) \in ValidLines(o) /\ (j + 1) \in ValidLines(o)
    /\ Len(plotted) = 2
    /\ Len(stdout) = 1

-----------------------------------------------------------------------------
(* Properties of create-diverging, under SpecDiverging. *)

\* The lists h, s and l are built.
ListsBuilt == pc \in {"assert", "print", "done", "AssertionError"}

C6_OddMiddle ==
    (ListsBuilt /\ args.n_colors > 0 /\ args.n_colors % 2 = 1) =>
        /\ Len(hs.h) = args.n_colors /\ Len(hs.s) = args.n_colors
        /\ Len(ls.l) = args.n_colors
        /\ hs.h[hs.half + 1] = Rat(0, 1)
        /\ hs.s[hs.half + 1] = Rat(0, 1)
        /\ ls.l[hs.half + 1] = args.l_mid
        /\ Len(ls.l) = Len(ls.l1) + Len(ls.l2) - 1

\* C7: the effective l_max is l_min when the l_max argument is absent or
\* negative, and the argument itself otherwise, an explicit 0 included.
C7_EffectiveLMax ==
    pc \notin {"lists", "lightness"} =>
        ls.l_max = IF argv.l_max = <<>> \/ argv.l_max[1][1] < 0
                   THEN argv.l_min
                   ELSE argv.l_max[1]

\* An explicit l_max of 0 was kept, l_min being another value.
C7_Witness ==
    /\ pc = "done"
    /\ argv.l_max = <<Rat(0, 1)>>
    /\ argv.l_min # Rat(0, 1)
    /\ ls.l_max = Rat(0, 1)
    /\ args.n_colors >= 4
    /\ ls.l[Len(ls.l)] = Rat(0, 1)

\* C8: for every n_colors >= 2 the first colour has lightness l_min, the last
\* has the effective l_max, and l_mid is the lightness at the middle.
C8_LightnessRamp ==
    (ListsBuilt /\ args.n_colors >= 2) =>
        /\ Len(ls.l) = args.n_colors
        /\ ls.l[1] = args.l_min
        /\ ls.l[Len(ls.l)] = ls.l_max
        /\ \E mid \in {hs.half, hs.half + 1} : ls.l[mid] = args.l_mid

\* C9: for every integer n_colors the command line accepts, h, s and l have
\* the same length where the assertions are made: neither assertion fails.
C9_AssertionsHold ==
    /\ pc # "AssertionError"
    /\ pc = "assert" => Len(hs.h) = Len(hs.s) /\ Len(hs.h) = Len(ls.l)

=============================================================================
